---- MODULE Spec2Model ----
(***************************************************************************)
(* A model of the WebGPU galaxy simulation: the GalaxySimulation           *)
(* controller (uniforms, particle buffers, compute kernels, the two        *)
(* "initialized" flags), the animation loop that calls update() once per   *)
(* animation frame, and the UI callbacks that reconfigure the simulation   *)
(* between the awaits of update().                                         *)
(*                                                                         *)
(* Numbers: every scalar parameter is kept in hundredths (armCount 2 is    *)
(* 200, rotationSpeed 0.1 is 10), colours are their 24-bit RGB value,      *)
(* deltaTime and the time uniform are in milliseconds.  Particle counts    *)
(* and hash seeds are plain integers.                                      *)
(*                                                                         *)
(* A compute pass is dispatched when renderer.computeAsync(kernel) is      *)
(* called and the caller resumes when the returned promise resolves; the   *)
(* GPU queue runs passes in dispatch order, so a pass's effect on the      *)
(* buffers is applied at its dispatch.  Between the dispatch and the       *)
(* resumption any other event-loop task (a UI callback, the next           *)
(* animation frame) may run.                                               *)
(***************************************************************************)
EXTENDS Integers, Sequences, FiniteSets, Bags, TLC

\* ------------------------------------------------------------------ bounds

\* update() invocations that may be in flight (suspended at an await) at once
MaxCalls == 2

\* user input events (panel edits, mouse button presses) in one behaviour
MaxUiEvents == 1

\* the time uniform is followed up to this many milliseconds, then saturates
MaxTime == 33

\* particles per population when the kernels are run one invocation at a time
MaxParticles == 2

\* compute passes in one behaviour of the kernels
MaxPasses == 3

\* --------------------------------------------------------- program constants

DefaultStarCount == 750000
MinStarCount == 1000
DefaultCloudCount == 5000
MaxCloudCount == 100000
CloudSeedOffset == 10000
MaxDeltaTime == 33

Populations == {"star", "cloud"}

\* keys of the config object that updateUniforms() copies into a uniform
StructuralKeys ==
  {"galaxyRadius", "galaxyThickness", "spiralTightness", "armCount", "armWidth", "randomness"}

ComputeKeys == {"rotationSpeed", "mouseForce", "mouseRadius"}

VisualKeys ==
  {"particleSize", "cloudSize", "cloudOpacity", "starBrightness",
   "denseStarColor", "sparseStarColor", "cloudTintColor"}

UniformKeys == StructuralKeys \cup ComputeKeys \cup VisualKeys

\* the panel's cosmetic bindings that call onUniformChange(key, value)
CosmeticKeys == (ComputeKeys \cup VisualKeys) \ {"cloudTintColor"}

ConfigKeys == UniformKeys \cup {"starCount", "cloudCount"}

\* the config object of main.js
DefaultConfig ==
  [starCount |-> DefaultStarCount, rotationSpeed |-> 10, spiralTightness |-> 175,
   mouseForce |-> 700, mouseRadius |-> 1000, galaxyRadius |-> 1300,
   galaxyThickness |-> 300, armCount |-> 200, armWidth |-> 225, randomness |-> 180,
   particleSize |-> 6, starBrightness |-> 30, denseStarColor |-> 1607167,
   sparseStarColor |-> 16757386, cloudCount |-> DefaultCloudCount, cloudSize |-> 300,
   cloudOpacity |-> 2, cloudTintColor |-> 16767694]

\* one other value of each panel binding, inside the binding's min..max
PanelValue ==
  [starCount |-> MinStarCount, rotationSpeed |-> 0, spiralTightness |-> 0,
   mouseForce |-> 0, mouseRadius |-> 100, galaxyRadius |-> 500,
   galaxyThickness |-> 10, armCount |-> 300, armWidth |-> 100, randomness |-> 0,
   particleSize |-> 50, starBrightness |-> 0, denseStarColor |-> 16777215,
   sparseStarColor |-> 0, cloudCount |-> MaxCloudCount, cloudSize |-> 50,
   cloudOpacity |-> 100, cloudTintColor |-> 255]

\* the value a panel binding moves to: the panel fires 'change' only when the
\* bound config field has changed
OtherValue(key, v) == IF v = DefaultConfig[key] THEN PanelValue[key] ELSE DefaultConfig[key]

\* deltaTime values animate() passes: Math.min(elapsed / 1000, 0.033).  No step of
\* the controller branches on it; the model follows the clamped value.
DeltaTimes == {MaxDeltaTime}

\* ------------------------------------------------------------------- state

VARIABLES
  mainPc,            \* main.js top level: "constructed", "galaxy", "loaded", "running"
  config,            \* the config object shared by main.js, the UI and the simulation
  uniforms,          \* this.uniforms: value of every uniform
  COUNT,             \* this.COUNT
  cloudCount,        \* this.cloudCount (0 until createClouds() stores it)
  starBuffers,       \* the four star storage buffers: name -> [id, len]
  cloudBuffers,      \* the five cloud storage buffers: name -> [id, len]
  kernels,           \* computeInit, computeUpdate, cloudInit, cloudUpdate: [bufs, count]
  sprites,           \* this.galaxy, this.cloudPlane: [bufs, count]
  scene,             \* ids of the sprites in the scene
  disposed,          \* ids of the sprites whose material was disposed
  nextId,            \* next allocation id
  initialized,       \* this.initialized
  cloudInitialized,  \* this.cloudInitialized
  content,           \* per population: what the last generation pass wrote
  calls,             \* the bag of update() invocations suspended at an await
  mousePressed,      \* main.js mousePressed
  uiEvents,          \* user input events so far
  genDone,           \* per population: a generation pass over the bound buffers has
                     \* completed since they were allocated and since regenerate()
  inits,             \* per population: generation passes dispatched in the current
                     \* Uninitialized period
  pendingEdit,       \* populations that were Initialized at a structural edit that no
                     \* update() call has followed yet
  regenOwed,         \* populations for which regenerate() was called and no generation
                     \* pass has been dispatched since
  lab                \* the kernels run on a few particles, one invocation at a time
                     \* (used by SpecKernel only)

simVars ==
  <<config, uniforms, COUNT, cloudCount, starBuffers, cloudBuffers, kernels, sprites,
    scene, disposed, nextId, initialized, cloudInitialized, content>>

vars ==
  <<mainPc, config, uniforms, COUNT, cloudCount, starBuffers, cloudBuffers, kernels,
    sprites, scene, disposed, nextId, initialized, cloudInitialized, content, calls,
    mousePressed, uiEvents, genDone, inits, pendingEdit, regenOwed, lab>>

\* the variables of the application
appVars ==
  <<mainPc, config, uniforms, COUNT, cloudCount, starBuffers, cloudBuffers, kernels,
    sprites, scene, disposed, nextId, initialized, cloudInitialized, content, calls,
    mousePressed, uiEvents, genDone, inits, pendingEdit, regenOwed>>

\* no kernel experiment is running
LabOff == [pc |-> "off"]

StarBufferNames == {"spawnPosition", "originalPosition", "velocity", "densityFactor"}
CloudBufferNames == {"position", "originalPosition", "color", "size", "rotation"}

\* a null reference: allocation ids start at 1
NullObject == [bufs |-> 0, count |-> 0]
IsNull(obj) == obj.bufs = 0

NoBuffers(names) == [n \in names |-> [id |-> 0, len |-> 0]]

\* instancedArray(count, type): a fresh buffer of count elements
instancedArray(id, count) == [id |-> id, len |-> count]

\* the uniforms a population's init kernel reads
GenKeys(pop) ==
  IF pop = "star" THEN StructuralKeys ELSE StructuralKeys \cup {"cloudTintColor"}

GenParams(pop, u) == [k \in GenKeys(pop) |-> u[k]]

\* buffers nothing has been generated into
Blank(pop) == [valid |-> FALSE, params |-> [k \in GenKeys(pop) |-> 0], written |-> 0]

\* ----------------------------------------------------- GalaxySimulation

\* initializeUniforms(config): thickness falls back to 0.1 when falsy
initializeUniforms(cfg) ==
  [k \in UniformKeys \cup {"time", "deltaTime", "mouseActive"} |->
     CASE k = "time" -> 0
       [] k = "deltaTime" -> 16
       [] k = "mouseActive" -> 0
       [] k = "galaxyThickness" -> IF cfg[k] = 0 THEN 10 ELSE cfg[k]
       [] OTHER -> cfg[k]]

\* the value undefined of a property, which is no number
Undefined == -888888888

\* configUpdate.key !== undefined: the key is present with another value
Given(configUpdate, k) == k \in DOMAIN configUpdate /\ configUpdate[k] # Undefined

\* faulty variant of updateUniforms: a key present with undefined is stored too
updateUniformsStoringUndefined(u, configUpdate) ==
  [k \in DOMAIN u |->
     IF k \in UniformKeys /\ k \in DOMAIN configUpdate THEN configUpdate[k] ELSE u[k]]

\* updateUniforms(configUpdate): configUpdate is a function from the keys it holds.
\* Returns the new uniforms; config.cloudCount is set by updateUniformsConfig.
updateUniforms(u, configUpdate) ==
  [k \in DOMAIN u |->
     IF k \in UniformKeys /\ Given(configUpdate, k) THEN configUpdate[k] ELSE u[k]]

updateUniformsConfig(cfg, configUpdate) ==
  IF Given(configUpdate, "cloudCount")
    THEN [cfg EXCEPT !["cloudCount"] = configUpdate["cloudCount"]]
    ELSE cfg

\* no invocation
IdleCall ==
  [pc |-> "idle", dt |-> 0, pressed |-> FALSE, buf |-> 0, owes |-> {},
   found |-> [p \in Populations |-> "unchecked"], trace |-> <<>>]

\* The simulation object and the GPU state as one value, so that a handler is the
\* composition of the methods it calls.  call is the invocation of update() that is
\* running (IdleCall in a UI callback), calls the suspended ones.
Sim ==
  [config |-> config, uniforms |-> uniforms, COUNT |-> COUNT, cloudCount |-> cloudCount,
   starBuffers |-> starBuffers, cloudBuffers |-> cloudBuffers, kernels |-> kernels,
   sprites |-> sprites, scene |-> scene, disposed |-> disposed, nextId |-> nextId,
   initialized |-> initialized, cloudInitialized |-> cloudInitialized,
   content |-> content, calls |-> calls, call |-> IdleCall, genDone |-> genDone,
   inits |-> inits, regenOwed |-> regenOwed]

Commit(S) ==
  /\ config' = S.config
  /\ uniforms' = S.uniforms
  /\ COUNT' = S.COUNT
  /\ cloudCount' = S.cloudCount
  /\ starBuffers' = S.starBuffers
  /\ cloudBuffers' = S.cloudBuffers
  /\ kernels' = S.kernels
  /\ sprites' = S.sprites
  /\ scene' = S.scene
  /\ disposed' = S.disposed
  /\ nextId' = S.nextId
  /\ initialized' = S.initialized
  /\ cloudInitialized' = S.cloudInitialized
  /\ content' = S.content
  /\ calls' = IF S.call.pc = "idle" THEN S.calls ELSE S.calls (+) SetToBag({S.call})
  /\ genDone' = S.genDone
  /\ inits' = S.inits
  /\ regenOwed' = S.regenOwed

\* this.initialized = false: a new Uninitialized period starts when the flag was set
clearInitialized(S) ==
  [S EXCEPT !.initialized = FALSE,
            !.inits = [@ EXCEPT !.star = IF S.initialized THEN 0 ELSE @]]

\* faulty variant of the cloud flag reset: the star flag is cleared with it
clearBothInitialized(S) ==
  [S EXCEPT !.initialized = FALSE, !.cloudInitialized = FALSE,
            !.inits = [@ EXCEPT !.cloud = IF S.cloudInitialized THEN 0 ELSE @]]

\* this.cloudInitialized = false
clearCloudInitialized(S) ==
  [S EXCEPT !.cloudInitialized = FALSE,
            !.inits = [@ EXCEPT !.cloud = IF S.cloudInitialized THEN 0 ELSE @]]

\* faulty variant of the cleanup: the old sprite stays in the scene
removeSpriteDisposingOnly(S, name) ==
  IF IsNull(S.sprites[name])
    THEN S
    ELSE [S EXCEPT !.disposed = @ \cup {S.sprites[name].bufs}]

\* the old sprite leaves the scene and its material is disposed
removeSprite(S, name) ==
  IF IsNull(S.sprites[name])
    THEN S
    ELSE [S EXCEPT !.scene = @ \ {S.sprites[name].bufs},
                   !.disposed = @ \cup {S.sprites[name].bufs}]

\* createGalaxySystem(): new star buffers, kernels and sprite, all of this.COUNT
createGalaxySystem(S) ==
  LET T == removeSprite(S, "galaxy")
      id == T.nextId
  IN [T EXCEPT
        !.starBuffers = [n \in StarBufferNames |-> instancedArray(id, T.COUNT)],
        !.kernels = [@ EXCEPT !.computeInit = [bufs |-> id, count |-> T.COUNT],
                              !.computeUpdate = [bufs |-> id, count |-> T.COUNT]],
        !.sprites = [@ EXCEPT !.galaxy = [bufs |-> id, count |-> T.COUNT]],
        !.scene = @ \cup {id},
        !.nextId = id + 1,
        !.content = [@ EXCEPT !.star = Blank("star")],
        !.genDone = [@ EXCEPT !.star = FALSE]]

\* faulty variant of createClouds(): the kernels are dispatched over the count
\* stored by the previous call
createCloudsKeepingDispatchCount(S) ==
  LET T == removeSprite(S, "cloudPlane")
      id == T.nextId
      CLOUD_COUNT == T.config["cloudCount"]
      U == [T EXCEPT
              !.cloudBuffers = [n \in CloudBufferNames |-> instancedArray(id, CLOUD_COUNT)],
              !.kernels = [@ EXCEPT !.cloudInit = [bufs |-> id, count |-> T.cloudCount],
                                    !.cloudUpdate = [bufs |-> id, count |-> T.cloudCount]],
              !.cloudCount = CLOUD_COUNT,
              !.sprites = [@ EXCEPT !.cloudPlane = [bufs |-> id, count |-> CLOUD_COUNT]],
              !.scene = @ \cup {id},
              !.nextId = id + 1,
              !.content = [@ EXCEPT !.cloud = Blank("cloud")],
              !.genDone = [@ EXCEPT !.cloud = FALSE]]
  IN clearCloudInitialized(U)

\* createClouds(): new cloud buffers, kernels and sprite, all of config.cloudCount;
\* resets cloudInitialized
createClouds(S) ==
  LET T == removeSprite(S, "cloudPlane")
      id == T.nextId
      CLOUD_COUNT == T.config["cloudCount"]
      U == [T EXCEPT
              !.cloudBuffers = [n \in CloudBufferNames |-> instancedArray(id, CLOUD_COUNT)],
              !.kernels = [@ EXCEPT !.cloudInit = [bufs |-> id, count |-> CLOUD_COUNT],
                                    !.cloudUpdate = [bufs |-> id, count |-> CLOUD_COUNT]],
              !.cloudCount = CLOUD_COUNT,
              !.sprites = [@ EXCEPT !.cloudPlane = [bufs |-> id, count |-> CLOUD_COUNT]],
              !.scene = @ \cup {id},
              !.nextId = id + 1,
              !.content = [@ EXCEPT !.cloud = Blank("cloud")],
              !.genDone = [@ EXCEPT !.cloud = FALSE]]
  IN clearCloudInitialized(U)

\* faulty variant of updateStarCount(): the flag is left as it was
updateStarCountKeepingFlag(S, newCount) ==
  createGalaxySystem(
    [S EXCEPT !.COUNT = newCount, !.config = [@ EXCEPT !["starCount"] = newCount]])

\* updateStarCount(newCount)
updateStarCount(S, newCount) ==
  LET T == [S EXCEPT !.COUNT = newCount, !.config = [@ EXCEPT !["starCount"] = newCount]]
  IN clearInitialized(createGalaxySystem(T))

\* updateUniforms(configUpdate) on the simulation
applyUniforms(S, configUpdate) ==
  [S EXCEPT !.uniforms = updateUniforms(S.uniforms, configUpdate),
            !.config = updateUniformsConfig(S.config, configUpdate)]

\* regenerate(): both populations are marked for regeneration
regenerate(S) ==
  LET T == clearCloudInitialized(clearInitialized(S))
  IN [T EXCEPT !.genDone = [p \in Populations |-> FALSE], !.regenOwed = Populations]

\* ------------------------------------------------------------- update()

Awaiting == {"awaitStarInit", "awaitCloudInit", "awaitStarUpdate", "awaitCloudUpdate"}

InitKernel(pop) == IF pop = "star" THEN "computeInit" ELSE "cloudInit"
UpdateKernel(pop) == IF pop = "star" THEN "computeUpdate" ELSE "cloudUpdate"
AwaitInit(pop) == IF pop = "star" THEN "awaitStarInit" ELSE "awaitCloudInit"
AwaitUpdate(pop) == IF pop = "star" THEN "awaitStarUpdate" ELSE "awaitCloudUpdate"

\* id of the buffers a population's sprite and kernels should be bound to
BoundId(S, pop) ==
  IF pop = "star" THEN S.starBuffers["spawnPosition"].id ELSE S.cloudBuffers["position"].id

Min(a, b) == IF a < b THEN a ELSE b

\* what one run of an init kernel leaves in the buffers it is bound to: every
\* invocation idx < count stores its particle, computed from the uniforms
generationPass(S, pop) ==
  LET k == S.kernels[InitKernel(pop)]
  IN IF k.bufs = BoundId(S, pop)
       THEN [S EXCEPT !.content = [@ EXCEPT ![pop] =
               [valid |-> TRUE, params |-> GenParams(pop, S.uniforms), written |-> k.count]]]
       ELSE S

\* await renderer.computeAsync(this.computeInit / this.cloudInit): the pass is
\* dispatched and the invocation suspends
dispatchInit(S, pop) ==
  LET T == generationPass(S, pop)
  IN [T EXCEPT
        !.inits = [@ EXCEPT ![pop] = @ + 1],
        !.regenOwed = @ \ {pop},
        !.call = [@ EXCEPT !.pc = AwaitInit(pop),
                           !.buf = S.kernels[InitKernel(pop)].bufs,
                           !.trace = Append(@, [ev |-> "gen", pop |-> pop, ok |-> TRUE])]]

\* await renderer.computeAsync(this.computeUpdate / this.cloudUpdate): the pass
\* runs with the values the uniforms have at the dispatch
dispatchUpdate(S, pop) ==
  [S EXCEPT
     !.call = [@ EXCEPT !.pc = AwaitUpdate(pop),
                        !.buf = 0,
                        !.trace = Append(@, [ev |-> "upd", pop |-> pop, ok |-> S.genDone[pop],
                                             deltaTime |-> S.uniforms["deltaTime"],
                                             mouseActive |-> S.uniforms["mouseActive"]])]]

\* lines "Update compute uniforms" and the star update pass
runUpdates(S) ==
  LET T == [S EXCEPT
              !.uniforms = [@ EXCEPT !["time"] = Min(@ + S.call.dt, MaxTime),
                                     !["deltaTime"] = S.call.dt,
                                     !["mouseActive"] = IF S.call.pressed THEN 100 ELSE 0]]
  IN dispatchUpdate(T, "star")

\* the value of a population's flag
Flag(S, pop) == IF pop = "star" THEN S.initialized ELSE S.cloudInitialized

\* the running invocation reaches the test of a population's flag: what it finds
noteFound(S, pop) ==
  [S EXCEPT !.call = [@ EXCEPT !.found = [@ EXCEPT ![pop] =
     IF Flag(S, pop) THEN "initialized"
     ELSE IF pop = "cloud" /\ IsNull(S.kernels["cloudInit"]) THEN "nokernel"
     ELSE "uninitialized"]]]

\* if (!this.cloudInitialized && this.cloudInit)
needsCloudInit(S) == ~S.cloudInitialized /\ ~IsNull(S.kernels["cloudInit"])

cloudCheck(S) ==
  LET T == noteFound(S, "cloud")
  IN IF needsCloudInit(T) THEN dispatchInit(T, "cloud") ELSE runUpdates(T)

\* faulty variant of the star test: the flag is not consulted
needsStarInitAlways(S) == TRUE

\* if (!this.initialized)
needsStarInit(S) == ~S.initialized

starCheck(S) ==
  LET T == noteFound(S, "star")
  IN IF needsStarInit(T) THEN dispatchInit(T, "star") ELSE cloudCheck(T)

\* the generation pass awaited by the running invocation has completed
noteGenerated(S, pop) ==
  [S EXCEPT
     !.genDone = [@ EXCEPT ![pop] = IF S.call.buf = BoundId(S, pop) THEN TRUE ELSE @]]

\* the running invocation has passed the line that sets a population's flag: the
\* value the flag has then, and the end of the Uninitialized period if it is set
noteSet(S, pop) ==
  [S EXCEPT
     !.inits = [@ EXCEPT ![pop] = IF Flag(S, pop) THEN 0 ELSE @],
     !.call = [@ EXCEPT !.trace = Append(@, [ev |-> "set", pop |-> pop, ok |-> Flag(S, pop)])]]

\* this.initialized = true
setInitialized(S) == [S EXCEPT !.initialized = TRUE]

\* this.cloudInitialized = true
setCloudInitialized(S) == [S EXCEPT !.cloudInitialized = TRUE]

\* after "await renderer.computeAsync(this.computeInit)"
resumeStarInit(S) == cloudCheck(noteSet(setInitialized(noteGenerated(S, "star")), "star"))

\* after "await renderer.computeAsync(this.cloudInit)"
resumeCloudInit(S) ==
  runUpdates(noteSet(setCloudInitialized(noteGenerated(S, "cloud")), "cloud"))

\* update() returns; animate() renders and ends in the same task
return(S) == [S EXCEPT !.call = IdleCall]

\* after "await renderer.computeAsync(this.computeUpdate)": if (this.cloudUpdate)
resumeStarUpdate(S) ==
  IF ~IsNull(S.kernels["cloudUpdate"]) THEN dispatchUpdate(S, "cloud") ELSE return(S)

\* faulty variant of the end of update(): the cloud flag is cleared on the way out
resumeCloudUpdateClearingFlag(S) == return(clearCloudInitialized(S))

\* after "await renderer.computeAsync(this.cloudUpdate)"
resumeCloudUpdate(S) == return(S)

\* update() from the await the running invocation was suspended at
resume(S) ==
  CASE S.call.pc = "awaitStarInit" -> resumeStarInit(S)
    [] S.call.pc = "awaitCloudInit" -> resumeCloudInit(S)
    [] S.call.pc = "awaitStarUpdate" -> resumeStarUpdate(S)
    [] S.call.pc = "awaitCloudUpdate" -> resumeCloudUpdate(S)

\* update(renderer, deltaTime, mouse3D, mousePressed) up to its first await
update(S, deltaTime, pressed, owes) ==
  starCheck([S EXCEPT !.call =
    [IdleCall EXCEPT !.pc = "entered", !.dt = deltaTime, !.pressed = pressed, !.owes = owes]])

\* ------------------------------------------------------------- main.js

\* the panel writes the new value into the bound config field, then calls back
panelSet(S, key) == [S EXCEPT !.config = [@ EXCEPT ![key] = OtherValue(key, @)]]

\* faulty variant of onUniformChange: every edit also requests regeneration
onUniformChangeRegenerating(S, key, value) == regenerate(applyUniforms(S, key :> value))

\* onUniformChange: (key, value) => galaxySimulation.updateUniforms({ [key]: value })
onUniformChange(S, key, value) == applyUniforms(S, key :> value)

\* onStarCountChange: (newCount) => galaxySimulation.updateStarCount(newCount)
onStarCountChange(S, newCount) == updateStarCount(S, newCount)

\* onCloudCountChange: updateUniforms({ cloudCount: newCount }); createClouds()
onCloudCountChange(S, newCount) == createClouds(applyUniforms(S, "cloudCount" :> newCount))

\* onCloudTintChange: updateUniforms({ cloudTintColor: color }); createClouds()
onCloudTintChange(S, color) == createClouds(applyUniforms(S, "cloudTintColor" :> color))

\* faulty variant of onRegenerate: the star system is recreated as well
onRegenerateRecreatingStars(S) ==
  regenerate(createClouds(createGalaxySystem(applyUniforms(S, S.config))))

\* onRegenerate: updateUniforms(config); createClouds(); regenerate()
onRegenerate(S) == regenerate(createClouds(applyUniforms(S, S.config)))

\* the populations whose flag is set
InitializedPops(S) == {p \in Populations : Flag(S, p)}

\* the suspended invocations
Suspended == BagToSet(calls)

\* animate(): one frame, up to the first await inside update()
animate(dt) ==
  /\ Commit(update(Sim, dt, mousePressed, pendingEdit))
  /\ pendingEdit' = {}
  /\ UNCHANGED <<mousePressed, uiEvents, lab>>

AppInit ==
  /\ mainPc = "constructed"
  /\ config = DefaultConfig
  /\ uniforms = initializeUniforms(DefaultConfig)
  /\ COUNT = DefaultConfig["starCount"]
  /\ cloudCount = 0
  /\ starBuffers = NoBuffers(StarBufferNames)
  /\ cloudBuffers = NoBuffers(CloudBufferNames)
  /\ kernels = [k \in {"computeInit", "computeUpdate", "cloudInit", "cloudUpdate"} |-> NullObject]
  /\ sprites = [k \in {"galaxy", "cloudPlane"} |-> NullObject]
  /\ scene = {}
  /\ disposed = {}
  /\ nextId = 1
  /\ initialized = FALSE
  /\ cloudInitialized = FALSE
  /\ content = [p \in Populations |-> Blank(p)]
  /\ calls = EmptyBag
  /\ mousePressed = FALSE
  /\ uiEvents = 0
  /\ genDone = [p \in Populations |-> FALSE]
  /\ inits = [p \in Populations |-> 0]
  /\ pendingEdit = {}
  /\ regenOwed = {}

Init == AppInit /\ lab = LabOff

\* main.js: galaxySimulation.createGalaxySystem()
MainCreateGalaxySystem ==
  /\ mainPc = "constructed"
  /\ mainPc' = "galaxy"
  /\ Commit(createGalaxySystem(Sim))
  /\ UNCHANGED <<mousePressed, uiEvents, pendingEdit, lab>>

\* main.js: galaxySimulation.createClouds(); the UI is created and the module ends
MainCreateClouds ==
  /\ mainPc = "galaxy"
  /\ mainPc' = "loaded"
  /\ Commit(createClouds(Sim))
  /\ UNCHANGED <<mousePressed, uiEvents, pendingEdit, lab>>

\* renderer.init().then(... animate()): the first frame
FirstFrame ==
  /\ mainPc = "loaded"
  /\ mainPc' = "running"
  /\ \E dt \in DeltaTimes : animate(dt)

\* requestAnimationFrame(animate): the next frame, whether or not the earlier
\* invocations of animate() have resumed from their awaits
Frame ==
  /\ mainPc = "running"
  /\ BagCardinality(calls) < MaxCalls
  /\ \E dt \in DeltaTimes : animate(dt)
  /\ UNCHANGED mainPc

\* the promise awaited by a suspended invocation resolves and update() continues
Resume ==
  \E call \in Suspended :
    /\ Commit(resume([Sim EXCEPT !.calls = calls (-) SetToBag({call}), !.call = call]))
    /\ UNCHANGED <<mainPc, mousePressed, uiEvents, pendingEdit, lab>>

\* input events arrive once the module has run; they are counted against the bound
InputReady == mainPc \in {"loaded", "running"} /\ uiEvents < MaxUiEvents

\* a cosmetic binding changes
EditCosmetic ==
  \E key \in CosmeticKeys :
    /\ InputReady
    /\ LET S == panelSet(Sim, key) IN Commit(onUniformChange(S, key, S.config[key]))
    /\ uiEvents' = uiEvents + 1
    /\ UNCHANGED <<mainPc, mousePressed, pendingEdit, lab>>

\* the cloud tint binding changes
EditCloudTint ==
  /\ InputReady
  /\ LET S == panelSet(Sim, "cloudTintColor")
     IN Commit(onCloudTintChange(S, S.config["cloudTintColor"]))
  /\ uiEvents' = uiEvents + 1
  /\ UNCHANGED <<mainPc, mousePressed, pendingEdit, lab>>

\* the cloud count binding changes
EditCloudCount ==
  /\ InputReady
  /\ LET S == panelSet(Sim, "cloudCount")
     IN Commit(onCloudCountChange(S, S.config["cloudCount"]))
  /\ uiEvents' = uiEvents + 1
  /\ UNCHANGED <<mainPc, mousePressed, pendingEdit, lab>>

\* the star count binding changes
EditStarCount ==
  /\ InputReady
  /\ LET S == panelSet(Sim, "starCount")
     IN Commit(onStarCountChange(S, S.config["starCount"]))
  /\ uiEvents' = uiEvents + 1
  /\ UNCHANGED <<mainPc, mousePressed, pendingEdit, lab>>

\* a binding of the "Galaxy Structure" folder other than rotation speed changes
EditStructural ==
  \E key \in StructuralKeys :
    /\ InputReady
    /\ Commit(onRegenerate(panelSet(Sim, key)))
    /\ pendingEdit' = pendingEdit \cup InitializedPops(Sim)
    /\ uiEvents' = uiEvents + 1
    /\ UNCHANGED <<mainPc, mousePressed, lab>>

\* window 'mousedown' / 'mouseup'; a release follows a press and is not counted
MouseDown ==
  /\ InputReady
  /\ ~mousePressed
  /\ mousePressed' = TRUE
  /\ uiEvents' = uiEvents + 1
  /\ UNCHANGED <<mainPc, simVars, calls, genDone, inits, pendingEdit, regenOwed, lab>>

MouseUp ==
  /\ mainPc \in {"loaded", "running"}
  /\ mousePressed
  /\ mousePressed' = FALSE
  /\ UNCHANGED <<mainPc, simVars, calls, uiEvents, genDone, inits, pendingEdit, regenOwed,
                 lab>>

Next ==
  \/ MainCreateGalaxySystem
  \/ MainCreateClouds
  \/ FirstFrame
  \/ Frame
  \/ Resume
  \/ EditCosmetic
  \/ EditCloudTint
  \/ EditCloudCount
  \/ EditStarCount
  \/ EditStructural
  \/ MouseDown
  \/ MouseUp

Spec == Init /\ [][Next]_vars

\* ------------------------------------------------- calls made past the panel

\* values the panel's bindings never produce
MalformedValue == [armCount |-> 0, galaxyRadius |-> -100]

\* galaxySimulation.updateUniforms({ [key]: value }) called with a malformed value
ApiUpdateUniforms ==
  \E key \in DOMAIN MalformedValue :
    /\ InputReady
    /\ Commit(applyUniforms(Sim, key :> MalformedValue[key]))
    /\ uiEvents' = uiEvents + 1
    /\ UNCHANGED <<mainPc, mousePressed, pendingEdit, lab>>

NextApi == Next \/ ApiUpdateUniforms

SpecApi == Init /\ [][NextApi]_vars

\* ------------------------------------------------- frames keep being issued

\* The module runs to its end, requestAnimationFrame keeps calling animate() and
\* every awaited compute pass completes
SpecLive ==
  /\ Init
  /\ [][Next]_vars
  /\ WF_vars(MainCreateGalaxySystem)
  /\ WF_vars(MainCreateClouds)
  /\ WF_vars(FirstFrame)
  /\ WF_vars(Frame)
  /\ WF_vars(Resume)

\* ------------------------------------------------------------ hash seeds

StarSalts == 1..5
CloudSalts == 1..7

\* computeInit: seed = idx.toFloat(); hash(seed.add(salt))
StarSeed(i, salt) == i + salt

\* cloudInit: seed = idx.toFloat().add(10000); hash(seed.add(salt))
CloudSeed(j, salt) == (j + CloudSeedOffset) + salt

\* ---------------------------------------------------------------- claims

\* positions in an invocation's trace of the events of one kind on one population
Entries(call, ev, pop) ==
  {i \in DOMAIN call.trace : call.trace[i].ev = ev /\ call.trace[i].pop = pop}

\* C1 (as claimed): whenever update() dispatches a population's update pass, a
\* generation pass over the population's currently bound buffers has completed since
\* the buffers were allocated and since regeneration was last requested.
C1_UpdateOnlyAfterGeneration ==
  \A call \in Suspended : \A pop \in Populations :
    \A i \in Entries(call, "upd", pop) : call.trace[i].ok

\* C6 (as claimed): the animation loop starts no update() call while an earlier one
\* is still awaiting one of its compute passes.
C6_FramesSerialized == BagCardinality(calls) <= 1

\* C7 (as claimed): within one Uninitialized period of a population its generation
\* pass is dispatched at most once.
C7_SingleInitializer == \A pop \in Populations : inits[pop] <= 1

\* C10 (as claimed): no star invocation (index i below the star kernel's count, salt
\* 1..5) hashes the seed of a cloud invocation (index j below the cloud kernel's
\* count, salt 1..7).  For each cloud seed and star salt the only star index that
\* could give the same seed is the seed minus the salt.
C10_NoSeedAlias ==
  \A t \in CloudSalts : \A s \in StarSalts :
    \A j \in 0..(kernels["cloudInit"].count - 1) :
      LET i == CloudSeed(j, t) - s
      IN ~(i \in 0..(kernels["computeInit"].count - 1) /\ StarSeed(i, s) = CloudSeed(j, t))

\* C2: in every invocation of update(), a population whose flag the invocation
\* found clear has exactly one generation pass dispatched by the invocation, and its
\* update pass is dispatched only after that pass was awaited and the flag was set;
\* a population whose flag was found set has no generation pass dispatched; each
\* population's update pass is dispatched once, the stars' first.
C2_UpdateSequence ==
  /\ (calls # EmptyBag) => ~IsNull(kernels["cloudUpdate"])
  /\ \A call \in Suspended : \A pop \in Populations :
       LET gens == Entries(call, "gen", pop)
           sets == Entries(call, "set", pop)
           upds == Entries(call, "upd", pop)
       IN /\ call.found[pop] # "nokernel"
          /\ (call.found[pop] = "initialized") => (gens = {})
          /\ (call.found[pop] = "uninitialized") => (Cardinality(gens) = 1)
          /\ (call.found[pop] = "unchecked") => (gens = {} /\ upds = {})
          /\ \A u \in upds :
               (call.found[pop] = "uninitialized") =>
                 \E g \in gens : g + 1 \in sets /\ call.trace[g + 1].ok /\ g + 1 < u
          /\ (call.pc = "awaitStarUpdate") =>
               (Cardinality(upds) = IF pop = "star" THEN 1 ELSE 0)
          /\ (call.pc = "awaitCloudUpdate") => (Cardinality(upds) = 1)
          /\ (call.pc \in {"awaitStarInit", "awaitCloudInit"}) => (upds = {})

\* C2 witness: an invocation that generated the stars, found the clouds Initialized
\* and has dispatched both update passes
C2_Witness ==
  \E call \in Suspended :
    /\ call.pc = "awaitCloudUpdate"
    /\ call.found["star"] = "uninitialized"
    /\ call.found["cloud"] = "initialized"

\* C3 (as claimed): the first update() call after a structural edit dispatches the
\* update pass of a population that was Initialized at the edit only after it has
\* dispatched that population's generation pass.
C3_NextUpdateRegenerates ==
  \A call \in Suspended : \A pop \in call.owes :
    \A u \in Entries(call, "upd", pop) : \E g \in Entries(call, "gen", pop) : g < u

\* the star system is bound to one fresh allocation of n particles
StarSystemOf(n, bufs, ks, sps, fresh) ==
  /\ \A name \in StarBufferNames : bufs[name] = [id |-> fresh, len |-> n]
  /\ ks["computeInit"] = [bufs |-> fresh, count |-> n]
  /\ ks["computeUpdate"] = [bufs |-> fresh, count |-> n]
  /\ sps["galaxy"] = [bufs |-> fresh, count |-> n]

\* the cloud system is bound to one fresh allocation of n particles
CloudSystemOf(n, bufs, ks, sps, fresh) ==
  /\ \A name \in CloudBufferNames : bufs[name] = [id |-> fresh, len |-> n]
  /\ ks["cloudInit"] = [bufs |-> fresh, count |-> n]
  /\ ks["cloudUpdate"] = [bufs |-> fresh, count |-> n]
  /\ sps["cloudPlane"] = [bufs |-> fresh, count |-> n]

\* C4: a change of the star count to newN leaves COUNT = newN, every star buffer
\* newly allocated with length newN, the star init and update kernels and the sprite
\* bound to the new buffers with count newN, and the star flag clear.
C4_UpdateStarCountReallocates ==
  [][EditStarCount =>
       LET newN == OtherValue("starCount", config["starCount"])
       IN /\ COUNT' = newN
          /\ StarSystemOf(newN, starBuffers', kernels', sprites', nextId)
          /\ \A name \in StarBufferNames : starBuffers[name].id < nextId
          /\ ~initialized']_vars

\* C4 witness: the star count was changed after the stars had been generated
C4_Witness ==
  /\ COUNT = MinStarCount
  /\ StarSystemOf(MinStarCount, starBuffers, kernels, sprites, nextId - 1)
  /\ ~initialized
  /\ disposed # {}
  /\ uniforms["time"] > 0

\* C5 (as claimed): no uniform ever holds a malformed structural value (armCount
\* below 1, negative radius), and no generation pass has run with one.
C5_MalformedRejected ==
  /\ uniforms["armCount"] >= 100
  /\ uniforms["galaxyRadius"] >= 0
  /\ \A pop \in Populations :
       content[pop].valid =>
         content[pop].params["armCount"] >= 100 /\ content[pop].params["galaxyRadius"] >= 0

\* an edit of the panel changed exactly the uniform of key, to the panel's new value
OnlyUniformChanged(key) ==
  /\ uniforms' = [uniforms EXCEPT ![key] = OtherValue(key, config[key])]
  /\ uniforms'[key] # uniforms[key]

\* no buffer, kernel or sprite was replaced, no flag changed and nothing was generated
NothingRegenerated ==
  /\ UNCHANGED <<COUNT, cloudCount, starBuffers, cloudBuffers, kernels, sprites>>
  /\ UNCHANGED <<scene, disposed, nextId, initialized, cloudInitialized>>
  /\ UNCHANGED <<content, calls, genDone, inits>>

\* the star system was left alone
StarsUntouched ==
  /\ UNCHANGED <<COUNT, starBuffers, initialized>>
  /\ kernels'["computeInit"] = kernels["computeInit"]
  /\ kernels'["computeUpdate"] = kernels["computeUpdate"]
  /\ sprites'["galaxy"] = sprites["galaxy"]
  /\ content'["star"] = content["star"]

\* the cloud system was recreated with config.cloudCount particles and left
\* Uninitialized
CloudsRecreated ==
  /\ CloudSystemOf(config'["cloudCount"], cloudBuffers', kernels', sprites', nextId)
  /\ \A name \in CloudBufferNames : cloudBuffers[name].id < nextId
  /\ ~cloudInitialized'
  /\ content'["cloud"] = Blank("cloud")

C9_RegenerationKeepsBuffers ==
  [][EditStructural => UNCHANGED <<starBuffers, cloudBuffers, kernels, sprites>>]_vars

\* C9 (amended): a structural edit leaves the star buffers, kernels and sprite as they
\* were and recreates the cloud system; every generation pass writes every index
\* below the length of the population's bound buffers, from the current uniforms.
C9_RegenerationKeepsStarBuffers ==
  [][/\ EditStructural =>
          /\ UNCHANGED <<COUNT, starBuffers>>
          /\ kernels'["computeInit"] = kernels["computeInit"]
          /\ kernels'["computeUpdate"] = kernels["computeUpdate"]
          /\ sprites'["galaxy"] = sprites["galaxy"]
          /\ CloudsRecreated
     /\ \A pop \in Populations :
          (content'[pop] # content[pop] /\ content'[pop].valid) =>
            /\ content'[pop].params = GenParams(pop, uniforms')
            /\ content'[pop].written =
                 IF pop = "star" THEN starBuffers'["spawnPosition"].len
                                 ELSE cloudBuffers'["position"].len
            /\ \A name \in StarBufferNames :
                 pop = "star" => starBuffers'[name].len = content'[pop].written
            /\ \A name \in CloudBufferNames :
                 pop = "cloud" => cloudBuffers'[name].len = content'[pop].written]_vars

\* C9 witness: the first update() call after a structural edit on Initialized stars
\* has generated them again, with the new value, into the buffers allocated at start-up
C9_Witness ==
  /\ \E call \in Suspended : "star" \in call.owes /\ Entries(call, "gen", "star") # {}
  /\ content["star"].valid
  /\ content["star"].params # GenParams("star", initializeUniforms(DefaultConfig))
  /\ content["star"].written = DefaultStarCount
  /\ \A name \in StarBufferNames : starBuffers[name] = [id |-> 1, len |-> DefaultStarCount]
  /\ cloudBuffers["position"].id > 2

\* everything the simulation keeps for the stars
StarSide(S) ==
  <<S.COUNT, S.starBuffers, S.kernels["computeInit"], S.kernels["computeUpdate"],
    S.sprites["galaxy"], S.initialized, S.content["star"]>>

\* everything the simulation keeps for the clouds
CloudSide(S) ==
  <<S.cloudCount, S.cloudBuffers, S.kernels["cloudInit"], S.kernels["cloudUpdate"],
    S.sprites["cloudPlane"], S.cloudInitialized, S.content["cloud"]>>

\* C12: in every state, updateStarCount() and a star generation or update pass would
\* leave the cloud buffers, kernels, sprite, contents and the cloudInitialized flag
\* as they are, and createClouds() and a cloud generation or update pass would leave
\* the star buffers, kernels, sprite, contents and the initialized flag as they are.
C12_PopulationsIndependent ==
  /\ \A newCount \in {MinStarCount, DefaultStarCount} :
       CloudSide(updateStarCount(Sim, newCount)) = CloudSide(Sim)
  /\ CloudSide(generationPass(Sim, "star")) = CloudSide(Sim)
  /\ CloudSide(dispatchUpdate(Sim, "star")) = CloudSide(Sim)
  /\ StarSide(createClouds(Sim)) = StarSide(Sim)
  /\ StarSide(generationPass(Sim, "cloud")) = StarSide(Sim)
  /\ StarSide(dispatchUpdate(Sim, "cloud")) = StarSide(Sim)

\* C12 witness: the cloud count was changed while the stars, generated earlier, are
\* still Initialized on their first buffers, and an update() call is in flight
C12_Witness ==
  /\ cloudCount = MaxCloudCount
  /\ initialized /\ content["star"].valid /\ starBuffers["spawnPosition"].id = 1
  /\ calls # EmptyBag

\* ------------------------------------------------- shader arithmetic (TSL)

\* Shader floats are kept as integers in hundredths, like the parameters.  The result
\* of a division by zero is NaN, which every later operation propagates.
Unit == 100
NaN == -999999999
TwoPi == 628

IsNumber(a) == a # NaN

\* what a division by zero yields: IEEE arithmetic gives a non-finite value, while
\* WGSL lets an implementation that assumes finite values give any value (here 0)
DivisionByZeroOutcomes == {NaN, 0}

\* the outcome on the device the kernels run on
divisionByZero == IF lab.pc = "off" THEN NaN ELSE lab.device

\* integer quotient rounded toward zero
Trunc(n, d) == IF n >= 0 THEN n \div d ELSE -((-n) \div d)

fadd(a, b) == IF a = NaN \/ b = NaN THEN NaN ELSE a + b
fsub(a, b) == IF a = NaN \/ b = NaN THEN NaN ELSE a - b
fmul(a, b) == IF a = NaN \/ b = NaN THEN NaN ELSE Trunc(a * b, Unit)
fdiv(a, b) ==
  IF a = NaN \/ b = NaN THEN NaN
  ELSE IF b = 0 THEN divisionByZero
  ELSE Trunc(a * Unit, b)
fnegate(a) == IF a = NaN THEN NaN ELSE -a
fabs(a) == IF a = NaN THEN NaN ELSE IF a < 0 THEN -a ELSE a
fmax(a, b) == IF a = NaN \/ b = NaN THEN NaN ELSE IF a > b THEN a ELSE b
fmin(a, b) == IF a = NaN \/ b = NaN THEN NaN ELSE IF a < b THEN a ELSE b
floor(a) == IF a = NaN THEN NaN ELSE (a \div Unit) * Unit
fract(a) == IF a = NaN THEN NaN ELSE a % Unit

\* a value times deltaTime, deltaTime being kept in milliseconds
mulDeltaTime(a, deltaTime) == IF a = NaN THEN NaN ELSE Trunc(a * deltaTime, 1000)

RECURSIVE SqrtSearch(_, _, _)
SqrtSearch(n, lo, hi) ==
  IF lo >= hi THEN lo
  ELSE LET mid == (lo + hi + 1) \div 2
       IN IF mid * mid <= n THEN SqrtSearch(n, mid, hi) ELSE SqrtSearch(n, lo, mid - 1)

\* the integer square root
ISqrt(n) == SqrtSearch(n, 0, IF n < 46340 THEN n ELSE 46340)

\* the fifth root of a value in [0, 1]
Root5(a) ==
  CHOOSE y \in 0..Unit :
    /\ fmul(fmul(fmul(fmul(y, y), y), y), y) <= a
    /\ \A z \in (y + 1)..Unit : fmul(fmul(fmul(fmul(z, z), z), z), z) > a

\* pow(a, exponent) for a in [0, 1] and the two exponents the kernels use, 0.5 and
\* 0.7 = 0.5 + 0.2
pow(a, exponent) ==
  IF a = NaN THEN NaN
  ELSE IF exponent = 50 THEN ISqrt(a * Unit)
  ELSE fmul(ISqrt(a * Unit), Root5(a))

\* sin on [0, pi], by Bhaskara's rational approximation
SinHalfTurn(a) ==
  LET q == a * ((TwoPi \div 2) - a)
  IN Trunc(16 * q * Unit, 5 * (TwoPi \div 2) * (TwoPi \div 2) - 4 * q)

sin(a) ==
  IF a = NaN THEN NaN
  ELSE LET r == a % TwoPi
       IN IF r <= TwoPi \div 2 THEN SinHalfTurn(r) ELSE -SinHalfTurn(r - (TwoPi \div 2))

cos(a) == IF a = NaN THEN NaN ELSE sin(a + (TwoPi \div 4))

vec3(x, y, z) == [x |-> x, y |-> y, z |-> z]
IsVector(v) == IsNumber(v.x) /\ IsNumber(v.y) /\ IsNumber(v.z)
vadd(v, w) == vec3(fadd(v.x, w.x), fadd(v.y, w.y), fadd(v.z, w.z))
vsub(v, w) == vec3(fsub(v.x, w.x), fsub(v.y, w.y), fsub(v.z, w.z))
vmul(v, a) == vec3(fmul(v.x, a), fmul(v.y, a), fmul(v.z, a))
vmulDeltaTime(v, dt) == vec3(mulDeltaTime(v.x, dt), mulDeltaTime(v.y, dt), mulDeltaTime(v.z, dt))
vnegate(v) == vec3(fnegate(v.x), fnegate(v.y), fnegate(v.z))

length(v) == IF ~IsVector(v) THEN NaN ELSE ISqrt(v.x * v.x + v.y * v.y + v.z * v.z)

\* normalize(v) = v / length(v)
normalize(v) ==
  LET len == length(v) IN vec3(fdiv(v.x, len), fdiv(v.y, len), fdiv(v.z, len))

\* ------------------------------------------------------------ helpers.js

\* faulty variant of hash: the value depends on the passes run so far
hashCountingPasses(seed) == fract(seed + 7 * lab.passes)

\* hash(seed): p = fract(seed * 0.1031); h = p + 19.19; fract(h * (h + 47.43) * p).
\* The first product is taken in millionths before it is cut to hundredths.
hash(seed) ==
  LET p == (((seed % 1000000) * 1031) % 1000000) \div 10000
      h == p + 1919
  IN fract(fmul(fmul(h, h + 4743), p))

rotateXZ(position, angle) ==
  LET cosTheta == cos(angle)
      sinTheta == sin(angle)
      newX == fsub(fmul(position.x, cosTheta), fmul(position.z, sinTheta))
      newZ == fadd(fmul(position.x, sinTheta), fmul(position.z, cosTheta))
  IN vec3(newX, position.y, newZ)

applyDifferentialRotation(position, rotationSpeed, deltaTime) ==
  LET distFromCenter == length(vec3(position.x, 0, position.z))
      rotationFactor == fdiv(Unit, fadd(fmul(distFromCenter, 10), Unit))
      angularSpeed == fnegate(mulDeltaTime(fmul(rotationSpeed, rotationFactor), deltaTime))
  IN rotateXZ(position, angularSpeed)

applyMouseForce(position, mouse, mouseActive, mouseForce, mouseRadius, deltaTime) ==
  LET toMouse == vsub(mouse, position)
      distToMouse == length(toMouse)
      mouseInfluence == fmul(mouseActive, fmax(fsub(Unit, fdiv(distToMouse, mouseRadius)), 0))
      mouseDir == normalize(toMouse)
  IN vnegate(vmulDeltaTime(vmul(vmul(mouseDir, mouseForce), mouseInfluence), deltaTime))

applySpringForce(currentPos, targetPos, strength, deltaTime) ==
  LET toTarget == vsub(targetPos, currentPos)
  IN vmulDeltaTime(vmul(toTarget, strength), deltaTime)

\* ------------------------------------------------- the compute kernels

\* hash(seed.add(salt)) in the init kernel of a population, seed being the particle
\* index (stars) or the index plus 10000 (clouds)
rnd(pop, idx, salt) ==
  hash((IF pop = "star" THEN StarSeed(idx, salt) ELSE CloudSeed(idx, salt)) * Unit)

\* the placement both init kernels compute for particle idx from the uniforms u;
\* the stars use exponent 0.5 and edge thickness 0.2, the clouds 0.7 and 0.15
placement(pop, idx, u) ==
  LET radius == fmul(pow(rnd(pop, idx, 1), IF pop = "star" THEN 50 ELSE 70), u["galaxyRadius"])
      normalizedRadius == fdiv(radius, u["galaxyRadius"])
      armIndex == floor(fmul(rnd(pop, idx, 2), u["armCount"]))
      armAngle == fdiv(fmul(armIndex, TwoPi), u["armCount"])
      spiralAngle == fmul(fmul(normalizedRadius, u["spiralTightness"]), TwoPi)
      angleOffset == fmul(fsub(rnd(pop, idx, 3), 50), u["randomness"])
      radiusOffset == fmul(fsub(rnd(pop, idx, 4), 50), u["armWidth"])
      angle == fadd(fadd(armAngle, spiralAngle), angleOffset)
      offsetRadius == fadd(radius, radiusOffset)
      x == fmul(cos(angle), offsetRadius)
      z == fmul(sin(angle), offsetRadius)
      thicknessFactor == fadd(fsub(Unit, normalizedRadius), IF pop = "star" THEN 20 ELSE 15)
      y == fmul(fmul(fsub(rnd(pop, idx, 5), 50), u["galaxyThickness"]), thicknessFactor)
  IN [radius |-> radius, normalizedRadius |-> normalizedRadius, angle |-> angle,
      angleOffset |-> angleOffset, radiusOffset |-> radiusOffset,
      offsetRadius |-> offsetRadius, position |-> vec3(x, y, z)]

\* faulty variant of computeInit: the placement is added to what the buffer holds
computeInitAccumulating(bufs, idx, u) ==
  [bufs EXCEPT !.position[idx] = vadd(@, placement("star", idx, u).position)]

\* one invocation of computeInit: instanceIndex = idx
computeInit(bufs, idx, u) ==
  LET p == placement("star", idx, u)
      orbitalSpeed == fmul(fdiv(Unit, fadd(p.offsetRadius, 50)), 500)
      vx == fnegate(fmul(sin(p.angle), orbitalSpeed))
      vz == fmul(cos(p.angle), orbitalSpeed)
      radialSparsity == fdiv(fabs(p.radiusOffset), fadd(fmul(u["armWidth"], 50), 1))
      angularSparsity == fdiv(fabs(p.angleOffset), fadd(fmul(u["randomness"], 50), 1))
      sparsityFactor == fmin(fmul(fadd(radialSparsity, angularSparsity), 50), Unit)
  IN [bufs EXCEPT !.position[idx] = p.position,
                  !.originalPosition[idx] = p.position,
                  !.velocity[idx] = vec3(vx, 0, vz),
                  !.densityFactor[idx] = sparsityFactor]

\* one invocation of cloudInit
cloudInit(bufs, idx, u) ==
  LET p == placement("cloud", idx, u)
      cloudColor == fmul(u["cloudTintColor"], fsub(Unit, fmul(p.normalizedRadius, 30)))
      densityFactor == fsub(Unit, fmul(p.normalizedRadius, 50))
      size == fmul(fadd(fmul(rnd("cloud", idx, 6), 50), 70), densityFactor)
      rotation == fmul(rnd("cloud", idx, 7), TwoPi)
  IN [bufs EXCEPT !.position[idx] = p.position,
                  !.originalPosition[idx] = p.position,
                  !.color[idx] = cloudColor,
                  !.size[idx] = size,
                  !.rotation[idx] = rotation]

\* faulty variant of the update body: the spring pulls toward the anchor as it was
\* before this pass
updateParticleSpringToOldAnchor(bufs, idx, u, mouse, strength) ==
  LET position == bufs.position[idx]
      originalPos == bufs.originalPosition[idx]
      rotatedPos == applyDifferentialRotation(position, u["rotationSpeed"], u["deltaTime"])
      rotatedOriginal == applyDifferentialRotation(originalPos, u["rotationSpeed"], u["deltaTime"])
      mouseForce == applyMouseForce(rotatedPos, mouse, u["mouseActive"], u["mouseForce"],
                                    u["mouseRadius"], u["deltaTime"])
      pushed == vadd(rotatedPos, mouseForce)
      springForce == applySpringForce(pushed, originalPos, strength, u["deltaTime"])
  IN [bufs EXCEPT !.originalPosition[idx] = rotatedOriginal,
                  !.position[idx] = vadd(pushed, springForce)]

\* faulty variant of the update body: the mouse force moves the anchor as well
updateParticleDraggingAnchor(bufs, idx, u, mouse, strength) ==
  LET position == bufs.position[idx]
      originalPos == bufs.originalPosition[idx]
      rotatedPos == applyDifferentialRotation(position, u["rotationSpeed"], u["deltaTime"])
      rotatedOriginal == applyDifferentialRotation(originalPos, u["rotationSpeed"], u["deltaTime"])
      mouseForce == applyMouseForce(rotatedPos, mouse, u["mouseActive"], u["mouseForce"],
                                    u["mouseRadius"], u["deltaTime"])
      pushed == vadd(rotatedPos, mouseForce)
      draggedOriginal == vadd(rotatedOriginal, mouseForce)
      springForce == applySpringForce(pushed, draggedOriginal, strength, u["deltaTime"])
  IN [bufs EXCEPT !.originalPosition[idx] = draggedOriginal,
                  !.position[idx] = vadd(pushed, springForce)]

\* the body shared by computeUpdate and cloudUpdate: rotation of the position and of
\* the anchor, mouse force, spring force of the given strength
updateParticle(bufs, idx, u, mouse, strength) ==
  LET position == bufs.position[idx]
      originalPos == bufs.originalPosition[idx]
      rotatedPos == applyDifferentialRotation(position, u["rotationSpeed"], u["deltaTime"])
      rotatedOriginal == applyDifferentialRotation(originalPos, u["rotationSpeed"], u["deltaTime"])
      mouseForce == applyMouseForce(rotatedPos, mouse, u["mouseActive"], u["mouseForce"],
                                    u["mouseRadius"], u["deltaTime"])
      pushed == vadd(rotatedPos, mouseForce)
      springForce == applySpringForce(pushed, rotatedOriginal, strength, u["deltaTime"])
  IN [bufs EXCEPT !.originalPosition[idx] = rotatedOriginal,
                  !.position[idx] = vadd(pushed, springForce)]

\* faulty variant of computeUpdate: the anchor is read from the next particle
computeUpdateReadingNeighbour(bufs, idx, u, mouse) ==
  LET next == (idx + 1) % Cardinality(DOMAIN bufs.position)
  IN updateParticle([bufs EXCEPT !.originalPosition[idx] = bufs.originalPosition[next]],
                    idx, u, mouse, 200)

\* one invocation of computeUpdate: spring strength 2.0
computeUpdate(bufs, idx, u, mouse) == updateParticle(bufs, idx, u, mouse, 200)

\* one invocation of cloudUpdate: spring strength 1.0
cloudUpdate(bufs, idx, u, mouse) == updateParticle(bufs, idx, u, mouse, 100)

\* ------------------------------------- the kernels on a few particles

Particles == 0..(MaxParticles - 1)

\* the config objects the simulation is constructed with
ConfigVariants ==
  {DefaultConfig,
   [DefaultConfig EXCEPT !["galaxyRadius"] = 0],
   [DefaultConfig EXCEPT !["armWidth"] = 0, !["randomness"] = 0],
   [DefaultConfig EXCEPT !["galaxyThickness"] = 0],
   [DefaultConfig EXCEPT !["rotationSpeed"] = 0],
   [DefaultConfig EXCEPT !["rotationSpeed"] = 200]}

\* an arm width no panel binding produces, in hundredths
NegativeArmWidth == -10

\* milliseconds of performance.now() between two calls of animate()
Elapsed == {0, 16, 5000}

\* freshly allocated storage buffers of a population: zero-filled
particleArrays(pop) ==
  IF pop = "star"
    THEN [position |-> [i \in Particles |-> vec3(0, 0, 0)],
          originalPosition |-> [i \in Particles |-> vec3(0, 0, 0)],
          velocity |-> [i \in Particles |-> vec3(0, 0, 0)],
          densityFactor |-> [i \in Particles |-> 0]]
    ELSE [position |-> [i \in Particles |-> vec3(0, 0, 0)],
          originalPosition |-> [i \in Particles |-> vec3(0, 0, 0)],
          color |-> [i \in Particles |-> 0],
          size |-> [i \in Particles |-> 0],
          rotation |-> [i \in Particles |-> 0]]

NoRef == [set |-> FALSE]

\* a simulation of one population constructed with cfg, nothing generated yet
LabStart(pop, cfg, device) ==
  [pc |-> "ready", pop |-> pop, cfg |-> cfg, device |-> device, u |-> initializeUniforms(cfg),
   mouse |-> vec3(0, 0, 0), bufs |-> particleArrays(pop), before |-> particleArrays(pop),
   kernel |-> "none", pending |-> {}, passes |-> 0, generated |-> FALSE, edited |-> FALSE,
   narrowed |-> FALSE, forced |-> FALSE,
   lastFrameTime |-> 0, frames |-> 0, hashed |-> {}, ref |-> NoRef]

\* faulty variant of the deltaTime computation: no clamp
frameDeltaTimeUnclamped(currentTime, lastFrameTime) == currentTime - lastFrameTime

\* animate(): deltaTime = Math.min((currentTime - lastFrameTime) / 1000, 0.033)
frameDeltaTime(currentTime, lastFrameTime) == Min(currentTime - lastFrameTime, MaxDeltaTime)

\* the hash evaluations of one init invocation: <<seed, value>>
hashEvaluations(pop, idx) ==
  {<<IF pop = "star" THEN StarSeed(idx, salt) ELSE CloudSeed(idx, salt), rnd(pop, idx, salt)>> :
     salt \in IF pop = "star" THEN StarSalts ELSE CloudSalts}

\* one invocation of the kernel of the running pass
runKernel(L, idx) ==
  CASE L.kernel = "init" /\ L.pop = "star" -> computeInit(L.bufs, idx, L.u)
    [] L.kernel = "init" /\ L.pop = "cloud" -> cloudInit(L.bufs, idx, L.u)
    [] L.kernel = "update" /\ L.pop = "star" -> computeUpdate(L.bufs, idx, L.u, L.mouse)
    [] L.kernel = "update" /\ L.pop = "cloud" -> cloudUpdate(L.bufs, idx, L.u, L.mouse)

\* a pass is dispatched: every particle index has an invocation to run
startPass(L, kernel) ==
  [L EXCEPT !.pc = "pass", !.kernel = kernel, !.pending = Particles, !.before = L.bufs]

\* the pass has run all its invocations
endPass(L) ==
  [L EXCEPT !.pc = "ready", !.passes = @ + 1,
            !.generated = @ \/ L.kernel = "init",
            !.ref = IF L.kernel = "init" /\ ~L.ref.set
                      THEN [set |-> TRUE, params |-> GenParams(L.pop, L.u), bufs |-> L.bufs]
                      ELSE @]

LabInit ==
  /\ AppInit
  /\ lab \in {LabStart(pop, cfg, device) :
               pop \in Populations, cfg \in ConfigVariants, device \in DivisionByZeroOutcomes}

\* update() finds the flag clear: renderer.computeAsync(init kernel)
LabGenerate ==
  /\ lab.pc = "ready"
  /\ lab.passes < MaxPasses
  /\ lab' = [startPass(lab, "init") EXCEPT !.forced = FALSE]
  /\ UNCHANGED appVars

\* animate() on a generated population: deltaTime from the clock, the uniforms of
\* update(), renderer.computeAsync(update kernel)
LabFrame ==
  \E elapsed \in Elapsed, pressed \in BOOLEAN :
    LET currentTime == lab.lastFrameTime + elapsed
        deltaTime == frameDeltaTime(currentTime, lab.lastFrameTime)
        L == [lab EXCEPT !.lastFrameTime = currentTime,
                         !.frames = @ + 1,
                         !.forced = @ \/ pressed,
                         !.u = [@ EXCEPT !["time"] = Min(@ + deltaTime, MaxTime),
                                         !["deltaTime"] = deltaTime,
                                         !["mouseActive"] = IF pressed THEN 100 ELSE 0]]
    IN /\ lab.pc = "ready"
       /\ lab.generated
       /\ lab.passes < MaxPasses
       /\ lab' = startPass(L, "update")
       /\ UNCHANGED appVars

\* the GPU runs the invocation of one particle index, in any order
LabInvoke(idx) ==
  /\ lab.pc = "pass"
  /\ idx \in lab.pending
  /\ LET L == [lab EXCEPT !.bufs = runKernel(lab, idx),
                          !.pending = @ \ {idx},
                          !.hashed = IF lab.kernel = "init"
                                       THEN @ \cup hashEvaluations(lab.pop, idx) ELSE @]
     IN lab' = IF L.pending = {} THEN endPass(L) ELSE L
  /\ UNCHANGED appVars

LabInvokeAny == \E idx \in Particles : LabInvoke(idx)

\* updateUniforms({ galaxyThickness: 0 }) between two passes
LabUpdateUniforms ==
  /\ lab.pc = "ready"
  /\ ~lab.edited
  /\ lab' = [lab EXCEPT !.u = updateUniforms(@, "galaxyThickness" :> 0), !.edited = TRUE]
  /\ UNCHANGED appVars

\* updateUniforms({ armWidth: -0.1 }) between two passes: the method stores every
\* value other than undefined
LabNarrowArms ==
  /\ lab.pc = "ready"
  /\ lab.passes = 0
  /\ ~lab.narrowed
  /\ lab' = [lab EXCEPT !.u = updateUniforms(@, "armWidth" :> NegativeArmWidth),
                        !.narrowed = TRUE]
  /\ UNCHANGED appVars

\* 'mousemove': mouse3D is the point of the plane y = 0 under the pointer, here the
\* point under particle 0 or the centre
LabMouseMove ==
  \E point \in {vec3(0, 0, 0), [lab.bufs.position[0] EXCEPT !.y = 0]} :
    /\ lab.pc = "ready"
    /\ lab.generated
    /\ IsVector(point)
    /\ point # lab.mouse
    /\ lab' = [lab EXCEPT !.mouse = point]
    /\ UNCHANGED appVars

NextKernel ==
  \/ LabGenerate
  \/ LabFrame
  \/ LabInvokeAny
  \/ LabUpdateUniforms
  \/ LabNarrowArms
  \/ LabMouseMove

SpecKernel == LabInit /\ [][NextKernel]_vars

\* ------------------------------------------------- claims on the kernels

\* C11: the invocation for particle index idx leaves every element j # idx of every
\* buffer as it was, and what it writes to element idx is what it would have written
\* had it run first in the pass: it reads no element another invocation of the pass
\* may have written, so the order of the invocations does not matter.
C11_NoCrossParticleDependency ==
  [][\A idx \in Particles :
       LabInvoke(idx) =>
         \A name \in DOMAIN lab.bufs :
           /\ \A j \in Particles \ {idx} : lab'.bufs[name][j] = lab.bufs[name][j]
           /\ lab'.bufs[name][idx] = runKernel([lab EXCEPT !.bufs = lab.before], idx)[name][idx]]_vars

\* C11 witness: an update pass has run for every particle and moved each of them
C11_Witness ==
  /\ lab.pc = "ready"
  /\ lab.kernel = "update"
  /\ \A idx \in Particles :
       /\ IsVector(lab.bufs.position[idx])
       /\ lab.bufs.position[idx] # lab.before.position[idx]
       /\ lab.bufs.originalPosition[idx] # lab.before.originalPosition[idx]

\* C13: every deltaTime animate() has passed to update() lies in [0, 0.033] seconds.
C13_DeltaTimeClamped ==
  (lab.pc # "off" /\ lab.frames > 0) =>
    (lab.u["deltaTime"] >= 0 /\ lab.u["deltaTime"] <= MaxDeltaTime)

\* C13 witness: a frame came five seconds after the one before and was given 33 ms
C13_Witness ==
  /\ lab.pc # "off"
  /\ lab.frames > 0
  /\ lab.lastFrameTime >= 5000
  /\ lab.u["deltaTime"] = MaxDeltaTime

C15_GenerationReproducible ==
  (lab.pc = "ready" /\ lab.kernel = "init" /\ lab.ref.set
     /\ GenParams(lab.pop, lab.u) = lab.ref.params) =>
    (lab.bufs = lab.ref.bufs)

\* C15 witness: the second generation pass ran over buffers an update pass had
\* changed
C15_Witness ==
  /\ lab.pc = "ready"
  /\ lab.kernel = "init"
  /\ lab.ref.set
  /\ GenParams(lab.pop, lab.u) = lab.ref.params
  /\ lab.frames > 0
  /\ lab.before # lab.ref.bufs
  /\ \A idx \in Particles : IsVector(lab.before.position[idx])

\* C16 (as claimed): after a generation pass every particle has a well-defined
\* position and density factor (no division by zero); with galaxyRadius = 0 every
\* particle is at the centre of the plane, and with armWidth = randomness = 0 no
\* particle has jitter.
C16_DegenerateParamsSafe ==
  (lab.pc = "ready" /\ lab.kernel = "init") =>
    \A idx \in Particles :
      LET p == placement(lab.pop, idx, lab.u)
      IN /\ IsVector(lab.bufs.position[idx])
         /\ IsNumber(p.normalizedRadius)
         /\ (lab.pop = "star") => IsNumber(lab.bufs.densityFactor[idx])
         /\ (lab.u["galaxyRadius"] = 0) =>
              (lab.bufs.position[idx].x = 0 /\ lab.bufs.position[idx].z = 0)
         /\ (lab.u["armWidth"] = 0 /\ lab.u["randomness"] = 0) =>
              (p.radiusOffset = 0 /\ p.angleOffset = 0)

\* the force step of the update kernels on a position, with the current uniforms
mouseForceOn(position) ==
  applyMouseForce(position, lab.mouse, lab.u["mouseActive"], lab.u["mouseForce"],
                  lab.u["mouseRadius"], lab.u["deltaTime"])

\* C17 (as claimed): for a particle whose position is the force origin the force
\* step yields the zero displacement, and after an update pass every position is
\* well-defined.
C17_ForceAtOriginIsZero ==
  (lab.pc # "off" /\ lab.generated) =>
    \A idx \in Particles :
      /\ (lab.bufs.position[idx] = lab.mouse) =>
           (mouseForceOn(lab.bufs.position[idx]) = vec3(0, 0, 0))
      /\ (lab.kernel = "update" /\ IsVector(lab.before.position[idx])
            /\ IsVector(lab.before.originalPosition[idx])) =>
           IsVector(lab.bufs.position[idx])

\* C18 (as claimed): the force step yields the zero displacement when the force is
\* inactive or the particle is at least the force radius away from the origin;
\* when it is active and the particle is nearer (but not at the origin) the
\* displacement is defined, points away from the origin, and the influence lies in
\* [0, 1].
C18_ForceZeroOrAway ==
  (lab.pc # "off" /\ lab.generated) =>
    \A idx \in Particles :
      LET position == lab.bufs.position[idx]
          toMouse == vsub(lab.mouse, position)
          dist == length(toMouse)
          influence == fmax(fsub(Unit, fdiv(dist, lab.u["mouseRadius"])), 0)
          force == mouseForceOn(position)
      IN IsVector(position) =>
           /\ (lab.u["mouseActive"] = 0 \/ dist >= lab.u["mouseRadius"]) =>
                (force = vec3(0, 0, 0))
           /\ (lab.u["mouseActive"] > 0 /\ dist > 0 /\ dist < lab.u["mouseRadius"]) =>
                /\ IsVector(force)
                /\ influence >= 0 /\ influence <= Unit
                /\ force.x * toMouse.x <= 0
                /\ force.y * toMouse.y <= 0
                /\ force.z * toMouse.z <= 0

\* C19 (as claimed): with the force inactive and rotationSpeed = 0 an update
\* invocation leaves the anchor as it was and replaces position - anchor by itself
\* less springConstant * deltaTime times itself, which is no farther from zero in
\* any coordinate.
C19_SpringContracts ==
  [][\A idx \in Particles :
       (/\ LabInvoke(idx)
        /\ lab.kernel = "update"
        /\ lab.u["mouseActive"] = 0
        /\ lab.u["rotationSpeed"] = 0
        /\ lab.u["deltaTime"] > 0
        /\ IsVector(lab.bufs.position[idx])
        /\ IsVector(lab.bufs.originalPosition[idx])) =>
         LET anchor == lab.bufs.originalPosition[idx]
             d == vsub(lab.bufs.position[idx], anchor)
             strength == IF lab.pop = "star" THEN 200 ELSE 100
             after == vsub(lab'.bufs.position[idx], lab'.bufs.originalPosition[idx])
         IN /\ lab'.bufs.originalPosition[idx] = anchor
            /\ IsVector(lab'.bufs.position[idx])
            /\ after = vsub(d, vmulDeltaTime(vmul(d, strength), lab.u["deltaTime"]))
            /\ fabs(after.x) <= fabs(d.x)
            /\ fabs(after.y) <= fabs(d.y)
            /\ fabs(after.z) <= fabs(d.z)]_vars

\* C20 (as claimed): after a generation pass with randomness = armWidth = 0 every
\* particle lies at planar radius galaxyRadius * hash(seed + 1)^p with no jitter,
\* and when thickness 0 was given in the constructor's config or set through
\* updateUniforms() every particle has y = 0.
C20_ExactRadiusAndFlat ==
  (lab.pc = "ready" /\ lab.kernel = "init") =>
    \A idx \in Particles :
      LET p == placement(lab.pop, idx, lab.u)
          exponent == IF lab.pop = "star" THEN 50 ELSE 70
      IN /\ (lab.u["randomness"] = 0 /\ lab.u["armWidth"] = 0) =>
              /\ lab.bufs.position[idx] = p.position
              /\ p.offsetRadius = fmul(pow(rnd(lab.pop, idx, 1), exponent), lab.u["galaxyRadius"])
              /\ p.angleOffset = 0
         /\ (lab.cfg["galaxyThickness"] = 0 \/ lab.edited) =>
              (lab.bufs.position[idx].y = 0)

\* C21 (as claimed): after every generation pass the densityFactor stored for every
\* star lies in [0, 1], whatever armWidth and randomness updateUniforms() was given.
C21_DensityFactorInRange ==
  (lab.pc = "ready" /\ lab.kernel = "init" /\ lab.pop = "star") =>
    \A idx \in Particles :
      /\ lab.bufs.densityFactor[idx] >= 0
      /\ lab.bufs.densityFactor[idx] <= Unit

\* spring strength of a population's update kernel
springStrength(pop) == IF pop = "star" THEN 200 ELSE 100

\* C22: an update invocation stores the position obtained by rotating the position,
\* adding the force displacement computed from the rotated position, then adding
\* the spring displacement computed from that displaced position toward the
\* rotated anchor; the anchor it stores is that rotated anchor.
C22_RotationForceSpringOrder ==
  [][\A idx \in Particles :
       (LabInvoke(idx) /\ lab.kernel = "update") =>
         LET rotated == applyDifferentialRotation(lab.bufs.position[idx],
                          lab.u["rotationSpeed"], lab.u["deltaTime"])
             anchor == applyDifferentialRotation(lab.bufs.originalPosition[idx],
                         lab.u["rotationSpeed"], lab.u["deltaTime"])
             displaced == vadd(rotated, mouseForceOn(rotated))
             spring == applySpringForce(displaced, anchor, springStrength(lab.pop),
                                        lab.u["deltaTime"])
         IN /\ lab'.bufs.originalPosition[idx] = anchor
            /\ lab'.bufs.position[idx] = vadd(displaced, spring)]_vars

\* C22 witness: an update pass with rotation and an active force has run, after
\* which some particle is defined, away from its anchor, and its anchor has moved
C22_Witness ==
  /\ lab.pc = "ready"
  /\ lab.kernel = "update"
  /\ lab.u["mouseActive"] > 0
  /\ lab.u["rotationSpeed"] > 0
  /\ lab.u["deltaTime"] > 0
  /\ \E idx \in Particles :
       /\ IsVector(lab.bufs.position[idx])
       /\ lab.bufs.position[idx] # lab.bufs.originalPosition[idx]
       /\ lab.bufs.originalPosition[idx] # lab.before.originalPosition[idx]

\* settings of the force and the spring an update invocation could run with
ForceSettings ==
  {[active |-> 0, strength |-> 0, radius |-> Unit, spring |-> 100],
   [active |-> Unit, strength |-> 700, radius |-> 1000, spring |-> 200]}

\* C23: the anchor an update invocation stores is the differential rotation of the
\* anchor it read, with the same y; it is the same whatever the particle's position,
\* the force origin, strength, radius and active flag, and the spring strength are.
C23_AnchorOnlyRotates ==
  [][\A idx \in Particles :
       (LabInvoke(idx) /\ lab.kernel = "update") =>
         LET anchor == lab'.bufs.originalPosition[idx]
         IN /\ anchor = applyDifferentialRotation(lab.bufs.originalPosition[idx],
                          lab.u["rotationSpeed"], lab.u["deltaTime"])
            /\ anchor.y = lab.bufs.originalPosition[idx].y
            /\ \A position \in {lab.bufs.position[j] : j \in Particles} :
                 \A mouse \in {vec3(0, 0, 0), position} :
                   \A force \in ForceSettings :
                     updateParticle([lab.bufs EXCEPT !.position[idx] = position], idx,
                                    [lab.u EXCEPT !["mouseActive"] = force.active,
                                                  !["mouseForce"] = force.strength,
                                                  !["mouseRadius"] = force.radius],
                                    mouse, force.spring).originalPosition[idx] = anchor]_vars

\* C23 witness: an update pass with rotation and an active force has run and left
\* every particle displaced from its anchor, off the plane y = 0, the anchor rotated
C23_Witness ==
  /\ lab.pc = "ready"
  /\ lab.kernel = "update"
  /\ lab.u["mouseActive"] > 0
  /\ \A idx \in Particles :
       /\ IsVector(lab.bufs.position[idx])
       /\ lab.bufs.originalPosition[idx].y # 0
       /\ lab.bufs.position[idx] # lab.bufs.originalPosition[idx]
       /\ lab.bufs.originalPosition[idx] # lab.before.originalPosition[idx]

\* ---------------------------------------------- claims on regeneration

\* C24 (as claimed): whenever regenerate() has been called and frames keep being
\* issued, a generation pass of each population is dispatched afterwards.
C24_RegenerationNotLost ==
  \A pop \in Populations : (pop \in regenOwed) ~> (pop \notin regenOwed)

\* C25 (as claimed): every update pass an update() call has dispatched, the stars'
\* and the clouds', ran with the deltaTime and force-active uniform values passed
\* to that call.
C25_BothPassesSameUniforms ==
  \A call \in Suspended : \A pop \in Populations :
    \A i \in Entries(call, "upd", pop) :
      /\ call.trace[i].deltaTime = call.dt
      /\ call.trace[i].mouseActive = (IF call.pressed THEN 100 ELSE 0)

\* C26 (as claimed): when the mouse has not been pressed in any frame since the last
\* generation pass, every particle's position equals its anchor after every pass.
C26_UnforcedStaysAtAnchor ==
  (lab.pc = "ready" /\ lab.generated /\ ~lab.forced) =>
    \A idx \in Particles : lab.bufs.position[idx] = lab.bufs.originalPosition[idx]

\* ------------------------------------------- claims on the controller

\* arguments of updateUniforms(): one key with a value, one key with undefined, a
\* cloud count, a key that is no uniform, whole config objects, two keys
ConfigUpdates ==
  {k :> PanelValue[k] : k \in UniformKeys}
    \cup {k :> Undefined : k \in {"armCount", "cloudOpacity", "cloudCount"}}
    \cup {"cloudCount" :> MaxCloudCount, "starCount" :> MinStarCount, "time" :> MaxTime}
    \cup {config, PanelValue, [armWidth |-> 100, randomness |-> Undefined]}

\* C27: updateUniforms(configUpdate) sets each uniform whose key is present with a
\* value other than undefined to that value, and config.cloudCount when cloudCount
\* is; every other uniform and config field, COUNT, the flags, the kernels, the
\* buffers and the rest of the simulation are as before.
C27_UpdateUniformsFrame ==
  \A configUpdate \in ConfigUpdates :
    LET T == applyUniforms(Sim, configUpdate)
    IN /\ \A k \in DOMAIN uniforms :
            T.uniforms[k] = IF k \in UniformKeys /\ k \in DOMAIN configUpdate
                                 /\ configUpdate[k] # Undefined
                              THEN configUpdate[k] ELSE uniforms[k]
       /\ \A k \in DOMAIN config :
            T.config[k] = IF k = "cloudCount" /\ k \in DOMAIN configUpdate
                               /\ configUpdate[k] # Undefined
                            THEN configUpdate[k] ELSE config[k]
       /\ [T EXCEPT !.uniforms = uniforms, !.config = config] = Sim

\* C27 witness: a cosmetic binding's updateUniforms() call has changed its uniform
\* while both populations are generated and an update() call is suspended
C27_Witness ==
  /\ \E k \in CosmeticKeys : uniforms[k] = PanelValue[k] /\ uniforms[k] # DefaultConfig[k]
  /\ initialized
  /\ cloudInitialized
  /\ content["star"].valid
  /\ content["cloud"].valid
  /\ \E call \in Suspended : call.pc = "awaitCloudUpdate"

\* the buffers of a population
BuffersOf(S, pop) == IF pop = "star" THEN S.starBuffers ELSE S.cloudBuffers

SpriteOf(pop) == IF pop = "star" THEN "galaxy" ELSE "cloudPlane"

\* every kernel of a population that exists is bound to the population's current
\* buffers and dispatched over their length, which is also the sprite's count
CountsAgree(S) ==
  \A pop \in Populations :
    \A name \in {InitKernel(pop), UpdateKernel(pop)} :
      (~IsNull(S.kernels[name])) =>
        /\ S.kernels[name].bufs = BoundId(S, pop)
        /\ S.sprites[SpriteOf(pop)].bufs = BoundId(S, pop)
        /\ S.sprites[SpriteOf(pop)].count = S.kernels[name].count
        /\ \A b \in DOMAIN BuffersOf(S, pop) : BuffersOf(S, pop)[b].len = S.kernels[name].count

\* the simulation after one more call of createGalaxySystem(), updateStarCount(),
\* createClouds() or updateUniforms(), config.starCount and config.cloudCount
\* possibly written by the panel before
OneCallLater(S) ==
  LET written == {S, [S EXCEPT !.config = [@ EXCEPT !["starCount"] = MinStarCount,
                                                    !["cloudCount"] = MaxCloudCount]]}
  IN UNION {{createGalaxySystem(W), createClouds(W), updateStarCount(W, MinStarCount),
             updateStarCount(W, DefaultStarCount),
             applyUniforms(W, "cloudCount" :> MinStarCount),
             applyUniforms(W, W.config)} : W \in written}

\* C28: in every state, and after any two further calls of createGalaxySystem(),
\* updateStarCount(), createClouds() and updateUniforms(), each existing kernel's
\* dispatch count equals the length of the buffers it is bound to and the count of
\* the sprite that draws them.
C28_DispatchCountsAgree ==
  /\ CountsAgree(Sim)
  /\ \A S \in OneCallLater(Sim) :
       /\ CountsAgree(S)
       /\ \A T \in OneCallLater(S) : CountsAgree(T)

\* C28 witness: the cloud count binding has recreated the clouds with another count
\* than the first createClouds() and they have been generated
C28_Witness ==
  /\ kernels["cloudInit"].count = MaxCloudCount
  /\ kernels["cloudUpdate"].count = MaxCloudCount
  /\ sprites["cloudPlane"].count = MaxCloudCount
  /\ cloudBuffers["position"].id > 2
  /\ cloudInitialized
  /\ content["cloud"].written = MaxCloudCount

\* ids of the sprites a simulation refers to
CurrentSprites(S) == {S.sprites[n].bufs : n \in {k \in DOMAIN S.sprites : ~IsNull(S.sprites[k])}}

\* the scene holds the current sprites and nothing else; every earlier sprite's
\* material was disposed
SceneIsCurrent(S) ==
  /\ S.scene = CurrentSprites(S)
  /\ Cardinality(S.scene) <= 2
  /\ \A id \in 1..(S.nextId - 1) : (id \notin S.scene) => (id \in S.disposed)
  /\ S.scene \cap S.disposed = {}

\* C29: in every state, and after any two further calls of createGalaxySystem(),
\* updateStarCount() and createClouds(), the scene holds at most one star sprite and
\* at most one cloud sprite, those of the most recent calls, and every earlier
\* sprite was removed and its material disposed.
C29_OneSpritePerPopulation ==
  /\ SceneIsCurrent(Sim)
  /\ \A S \in OneCallLater(Sim) :
       /\ SceneIsCurrent(S)
       /\ \A T \in OneCallLater(S) : SceneIsCurrent(T)

\* C29 witness: a sprite has been replaced: the scene holds two sprites and one
\* earlier sprite is disposed
C29_Witness ==
  /\ Cardinality(scene) = 2
  /\ disposed # {}
  /\ nextId = 4
  /\ ~IsNull(sprites["galaxy"])
  /\ ~IsNull(sprites["cloudPlane"])

\* both populations are initialized, and every suspended update() call that found
\* them so has dispatched the star update pass, and the cloud update pass once it
\* is past the star pass
SettledFrames ==
  /\ initialized
  /\ cloudInitialized
  /\ \A call \in Suspended :
       (\A pop \in Populations : call.found[pop] = "initialized") =>
         /\ Entries(call, "upd", "star") # {}
         /\ (call.pc = "awaitCloudUpdate") => (Entries(call, "upd", "cloud") # {})

\* C30: when frames keep being issued, from some point on both populations are
\* initialized and stay so, every update() call begun since dispatches the update
\* passes, and update passes of both populations keep being dispatched.
C30_EventuallyInitializedForGood ==
  /\ <>[]SettledFrames
  /\ []<>(\E call \in Suspended : call.pc = "awaitStarUpdate")
  /\ []<>(\E call \in Suspended : call.pc = "awaitCloudUpdate")

\* C30 witness: after a structural edit requested regeneration, both populations are
\* initialized again and a call that found them so has dispatched both update passes
C30_Witness ==
  /\ uiEvents = MaxUiEvents
  /\ \E k \in StructuralKeys : config[k] # DefaultConfig[k]
  /\ regenOwed = {}
  /\ initialized
  /\ cloudInitialized
  /\ \E call \in Suspended :
       /\ call.pc = "awaitCloudUpdate"
       /\ \A pop \in Populations : call.found[pop] = "initialized"

====
